---------------------------- MODULE Spec2Model ----------------------------
(***************************************************************************)
(* A model of the parametric golf wedge generator: the component builders  *)
(* (WedgeHosel, WedgeBlade with its groove cutter, WedgeSole), the         *)
(* configuration loader, the generate_wedge pipeline with its validation   *)
(* and STEP export, and the grind-style decision table of the web form.    *)
(*                                                                         *)
(* Numbers.  Every real-valued quantity of the program (millimetres and    *)
(* degrees) is held as an integer number of hundredths: 9.4 mm is 940,     *)
(* 3.81 mm is 381, 56 degrees is 5600.  Groove counts and loop indices are *)
(* plain integers.  The inputs drawn below are values for which the        *)
(* program's double arithmetic agrees with this exact arithmetic (whole    *)
(* millimetre face heights and clearances; bore diameters 9.28, 9.3, 9.4,  *)
(* 9.5, 9.52, 9.6, for which abs(d - 9.4) > 0.1 evaluates as written here).*)
(*                                                                         *)
(* Solids.  The solid-modelling kernel is external.  A solid is modelled   *)
(* as the sequence of kernel operations that produced it; kernel_calls is  *)
(* the trace of all kernel operations issued, failed ones included.  Only  *)
(* the operations the source wraps in try/except are allowed to fail.  A   *)
(* measurement query (Volume, CenterOfMass, isValid) is a trace entry      *)
(* whose arg holds what the kernel answered.                               *)
(*                                                                         *)
(* Time.  now is the wall clock in half seconds; export_step reads it when *)
(* it names the file and formats it to the whole second.                   *)
(***************************************************************************)
EXTENDS Integers, Sequences, FiniteSets, TLC

\* ------------------------------------------------------------------ bounds

\* Largest requested groove count drawn for the groove cutter.
MaxCount == 3

\* Largest reading of the wall clock, in half seconds after the first one.
MaxTime == 2

\* The most operations the kernel fails in one run of the web form's
\* handler, whose widgets ask for eight grooves at least.
MaxFailed == 1

\* ------------------------------------------------------- program constants

StandardBore == 940
BoreTolerance == 10
MinWall == 300
LoftMin == 4500
LoftMax == 6400
LieMin == 6000
LieMax == 6600
BounceMin == 0
BounceMax == 1600
SoleWidthMin == 1500
SoleWidthMax == 3000
DefaultHeight == 4200
DefaultOuterDiameter == 1450
DefaultBoreDepth == 3800
DefaultBladeLength == 7400
DefaultFaceHeight == 4900
DefaultToplineThickness == 300
DefaultLoft == 5600
DefaultLie == 6400
DefaultBounce == 800
DefaultSpacing == 381
DefaultGrooveWidth == 90
DefaultGrooveDepth == 40
DefaultCount == 12
DefaultEdgeClearance == 300
DefaultWidthCenter == 2100
DefaultLeadingEdgeRadius == 60
DefaultHeelReliefAngle == 150
DefaultToeReliefAngle == 200
ToplineFilletRadius == 100
SoleThickness == 300
HighReliefLimit == 250
WideSoleLimit == 2300
LowBounceLimit == 600
DefaultTargetWeight == 29200
DefaultWeightTolerance == 500
DefaultCgTolerance == 200
DefaultDensity == 785
DefaultFromFace == 2000
DefaultFromHeel == 3700
DefaultFromSole == 1900
HeelInset == 800

\* ------------------------------------------------------------- arithmetic

Abs(x) == IF x < 0 THEN -x ELSE x

Min(a, b) == IF a <= b THEN a ELSE b

\* Python's int(a / b) for b > 0: truncation toward zero.
IntTrunc(a, b) == IF a >= 0 THEN a \div b ELSE -((-a) \div b)

\* ---------------------------------------------------------- configuration

\* The dotted key paths below wedge_specs that the program reads.
Keys ==
    { "loft", "lie", "bounce", "blade_length", "face_height",
      "topline_thickness",
      "hosel.height", "hosel.outer_diameter", "hosel.bore_diameter",
      "hosel.bore_depth",
      "sole.width_center", "sole.leading_edge_radius",
      "sole.heel_relief_angle", "sole.toe_relief_angle",
      "face.grooves", "face.grooves.spacing", "face.grooves.width",
      "face.grooves.depth", "face.grooves.count",
      "face.grooves.edge_clearance",
      "weight.target_head_weight", "weight.tolerance",
      "weight.center_of_gravity.from_face",
      "weight.center_of_gravity.from_heel",
      "weight.center_of_gravity.from_sole",
      "material.type" }

\* The configuration the web form builds from its default widget values
\* (material.type is an index into material_types).
config_dict ==
    [ k \in Keys |->
        CASE k = "loft" -> 5600
          [] k = "lie" -> 6400
          [] k = "bounce" -> 800
          [] k = "blade_length" -> 7400
          [] k = "face_height" -> 4900
          [] k = "topline_thickness" -> 300
          [] k = "hosel.height" -> 4200
          [] k = "hosel.outer_diameter" -> 1450
          [] k = "hosel.bore_diameter" -> 940
          [] k = "hosel.bore_depth" -> 3800
          [] k = "sole.width_center" -> 2100
          [] k = "sole.leading_edge_radius" -> 60
          [] k = "sole.heel_relief_angle" -> 150
          [] k = "sole.toe_relief_angle" -> 200
          [] k = "face.grooves" -> 0
          [] k = "face.grooves.spacing" -> 381
          [] k = "face.grooves.width" -> 90
          [] k = "face.grooves.depth" -> 40
          [] k = "face.grooves.count" -> 12
          [] k = "face.grooves.edge_clearance" -> 300
          [] k = "weight.target_head_weight" -> 29200
          [] k = "weight.tolerance" -> 500
          [] k = "weight.center_of_gravity.from_face" -> 2000
          [] k = "weight.center_of_gravity.from_heel" -> 3700
          [] k = "weight.center_of_gravity.from_sole" -> 1900
          [] k = "material.type" -> 1 ]

\* A configuration document: the keys present and their values (0 for an
\* absent key, so that equal documents are equal values).
MakeConfig(missing, overrides) ==
    [ present |-> Keys \ missing,
      val |-> [ k \in Keys |->
                  IF k \in missing THEN 0
                  ELSE IF k \in DOMAIN overrides THEN overrides[k]
                  ELSE config_dict[k] ] ]

\* dict.get(key, default) / WedgeConfig.get(key_path, default).
Get(c, k, default) == IF k \in c.present THEN c.val[k] ELSE default

\* ------------------------------------------------------------------ errors

NoError == [ exc |-> "none", what |-> "", field |-> "" ]

ValueError(what, field) == [ exc |-> "ValueError", what |-> what, field |-> field ]

\* ------------------------------------------------------------------- state

VARIABLES
    pc,                 \* position in the call being run
    entry,              \* the top-level call: "generate_wedge", "hosel", ...
    cfg,                \* the wedge_specs document (never written)
    hosel_geometry,     \* solid returned by WedgeHosel.generate
    blade_geometry,     \* solid returned by WedgeBlade.generate / add_grooves
    sole_geometry,      \* solid returned by the WedgeSole methods
    wedge,              \* the assembled solid: <<blade, sole, positioned hosel>>
    kernel_calls,       \* every kernel operation issued, in order
    i,                  \* add_grooves: loop index
    actual_count,       \* add_grooves: number of grooves it decided to cut
    raised,             \* the exception that ended the call, or NoError
    out,                \* lines printed
    validation_results, \* result of validate_wedge_geometry, <<>> before it
    step_path,          \* path returned by export_step, <<>> before it
    grind_type,         \* label shown by the web form, "" before it
    now,                \* the wall clock, in half seconds
    files,              \* the paths written in the output directory
    prior,              \* <<what an earlier invocation returned>>, or <<>>
    builders,           \* the hosel, blade and sole objects, <<>> before __init__
    asked,              \* what the kernel has answered so far, on which solid
    sched,              \* the builder being stepped and where the others stand
    session_state       \* what the web form's handler stored, <<>> before it

vars ==
    << pc, entry, cfg, builders, asked, sched, hosel_geometry, blade_geometry, sole_geometry, wedge,
       kernel_calls, i, actual_count, raised, out, validation_results,
       step_path, grind_type, now, files, prior, builders, asked, sched,
       session_state >>

solids == << hosel_geometry, blade_geometry, sole_geometry, wedge >>

grooveLoop == << i, actual_count >>

world == << now, files, prior, session_state >>

results == << validation_results, step_path, grind_type, world >>

\* Nothing is being scheduled: the builders run one after the other.
NoSched == [ running |-> "none", saved |-> << >> ]

\* No builder object exists yet.
NoBuilders == [ hosel |-> << >>, blade |-> << >>, sole |-> << >> ]

\* ------------------------------------------------------------------ kernel

\* One kernel operation: its name, the edge/face selector or workplane it is
\* applied to, and its numeric arguments.
KernelOp(op, sel, arg) == [ op |-> op, sel |-> sel, arg |-> arg ]

\* The trace entry of a kernel operation and whether it succeeded.
Call(k, ok) == [ op |-> k.op, sel |-> k.sel, arg |-> k.arg, ok |-> ok ]

Calls(ks) == [ n \in 1..Len(ks) |-> Call(ks[n], TRUE) ]

\* The number of operations the kernel failed among `calls`.
Failures(calls) == Cardinality({ n \in 1..Len(calls) : ~calls[n].ok })

\* The call sites of the web form's handler: as those of generate_wedge,
\* without the validate() calls and with its own assembly.
AppNext(next) ==
    CASE next = "blade_validate" -> "blade_generate"
      [] next = "sole_validate" -> "flat_sole"
      [] next = "assemble" -> "app_assemble"
      [] OTHER -> next

\* Where a call goes when it returns: back into generate_wedge or into the
\* web form's handler, to the end of the run when it was called directly,
\* and to "built" when the three builds are stepped in any order.
Return(fn, next) ==
    IF entry = fn THEN "done"
    ELSE IF entry = "any_order" THEN "built"
    ELSE IF entry = "app_generate" THEN AppNext(next)
    ELSE next

\* A raised exception propagates out of every caller: the run is over.
Raise(e) ==
    /\ raised' = e
    /\ pc' = "raised"

\* What the except clause around a cosmetic feature leaves of the kernel's
\* exception: nothing, the builder carries on.
FeatureErrorPropagated(feature) ==
    [ exc |-> "KernelError", what |-> "feature", field |-> feature ]

FeatureErrorCaught(feature) == NoError

\* The exception left after a feature operation that did or did not succeed.
AfterFeature(ok, feature) == IF ok THEN NoError ELSE FeatureErrorCaught(feature)

\* What is asked of the kernel by a trace entry: for a measurement only its
\* name, the arg being the answer.
Asked(call) ==
    IF call.op \in { "Volume", "CenterOfMass", "isValid" } THEN << call.op >>
    ELSE << call.op, call.sel, call.arg >>

\* One answer of the kernel: the solid operated on, the operation, and what
\* came back (whether it succeeded, or the measurement).
Answer(on, k, ans) == [ on |-> on, k |-> k, ans |-> ans ]

\* The kernel computes: the same operation on the same solid has one answer.
KernelFunctional ==
    \A a, b \in asked :
        (a.k.op = b.k.op /\ a.k = b.k /\ a.on = b.on) => a.ans = b.ans

\* The kernel is a function: asked the same thing after the same history as
\* in the earlier invocation, it answers the same.  Every action in which
\* the kernel decides something is held to this.
KernelDeterministic ==
    prior = << >> \/
    \A n \in 1..Len(kernel_calls) :
        ( /\ n <= Len(prior[1].kernel_calls)
          /\ SubSeq(kernel_calls, 1, n - 1) = SubSeq(prior[1].kernel_calls, 1, n - 1)
          /\ Asked(kernel_calls[n]) = Asked(prior[1].kernel_calls[n]) )
        => kernel_calls[n] = prior[1].kernel_calls[n]

\* ------------------------------------------------------------- WedgeHosel

\* WedgeHosel.__init__: the four fields, with their defaults.
WedgeHosel(c) ==
    [ height |-> Get(c, "hosel.height", DefaultHeight),
      outer_diameter |-> Get(c, "hosel.outer_diameter", DefaultOuterDiameter),
      bore_diameter |-> Get(c, "hosel.bore_diameter", StandardBore),
      bore_depth |-> Get(c, "hosel.bore_depth", DefaultBoreDepth) ]

\* The bore-diameter test of WedgeHosel.validate.
BoreOffStandardStrict(h) == Abs(h.bore_diameter - StandardBore) >= BoreTolerance

BoreOffStandard(h) == Abs(h.bore_diameter - StandardBore) > BoreTolerance

\* The wall test of WedgeHosel.validate.
WallTooThinLoose(h) == h.outer_diameter < h.bore_diameter

WallTooThin(h) == h.outer_diameter < h.bore_diameter + MinWall

\* WedgeHosel.validate: the exception it raises, or NoError when it
\* returns True.
WedgeHosel_validate(h) ==
    IF BoreOffStandard(h) THEN ValueError("standard", "bore_diameter")
    ELSE IF h.bore_depth >= h.height THEN ValueError("depth", "bore_depth")
    ELSE IF WallTooThin(h) THEN ValueError("wall", "outer_diameter")
    ELSE NoError

\* WedgeHosel.generate: outer cylinder, bore cylinder built on a workplane
\* offset to the top of the hosel, and the subtraction.
WedgeHosel_generate(h) ==
    << KernelOp("cylinder", "XY", << h.height, h.outer_diameter \div 2, 0 >>),
       KernelOp("cylinder", "XY",
                << h.bore_depth, h.bore_diameter \div 2, h.height \div 2 >>),
       KernelOp("cut", "", << >>) >>

\* hosel = WedgeHosel(hosel_config); hosel.validate()
HoselValidate ==
    /\ pc = "hosel_validate"
    /\ builders' = [ builders EXCEPT !.hosel = WedgeHosel(cfg) ]
    /\ LET e == WedgeHosel_validate(builders'.hosel)
       IN  IF e = NoError
           THEN /\ pc' = "hosel_generate"
                /\ UNCHANGED raised
           ELSE Raise(e)
    /\ UNCHANGED << entry, cfg, asked, sched, solids, kernel_calls, grooveLoop, out, results >>

\* The cylinders of WedgeHosel.generate the kernel may refuse: one of no or
\* negative height.  Nothing catches the kernel's exception.
Refusable(h) ==
    (IF h.height <= 0 THEN { 1 } ELSE { })
    \cup (IF h.bore_depth <= 0 THEN { 2 } ELSE { })

KernelError(op) == [ exc |-> "KernelError", what |-> op, field |-> "" ]

HoselGenerate ==
    /\ pc = "hosel_generate"
    /\ LET ops == WedgeHosel_generate(builders.hosel)
       IN  \E failAt \in { 0 } \cup Refusable(builders.hosel) :
             IF failAt = 0
             THEN /\ hosel_geometry' = ops
                  /\ kernel_calls' = kernel_calls \o Calls(ops)
                  /\ asked' =
                       asked \cup { Answer(<< >>, ops[n], TRUE) :
                                      n \in Refusable(builders.hosel) }
                  /\ pc' = Return("hosel", "blade_validate")
                  /\ UNCHANGED raised
             ELSE /\ UNCHANGED hosel_geometry
                  /\ kernel_calls' =
                       Append(kernel_calls \o Calls(SubSeq(ops, 1, failAt - 1)),
                              Call(ops[failAt], FALSE))
                  /\ asked' = asked \cup { Answer(<< >>, ops[failAt], FALSE) }
                  /\ Raise(KernelError(ops[failAt].op))
    /\ UNCHANGED << entry, cfg, builders, sched, blade_geometry, sole_geometry, wedge,
                    grooveLoop, out, results >>
    /\ KernelFunctional'

\* ------------------------------------------------------------- WedgeBlade

\* WedgeBlade.__init__: the five fields, with their defaults.
WedgeBlade(c) ==
    [ blade_length |-> Get(c, "blade_length", DefaultBladeLength),
      face_height |-> Get(c, "face_height", DefaultFaceHeight),
      topline_thickness |-> Get(c, "topline_thickness", DefaultToplineThickness),
      loft |-> Get(c, "loft", DefaultLoft),
      lie |-> Get(c, "lie", DefaultLie) ]

\* WedgeBlade.validate checking the loft alone.
WedgeBlade_validate_loft_only(b) ==
    IF ~(LoftMin <= b.loft /\ b.loft <= LoftMax) THEN ValueError("range", "loft")
    ELSE NoError

\* WedgeBlade.validate: the exception it raises, or NoError.
WedgeBlade_validate(b) ==
    IF ~(LoftMin <= b.loft /\ b.loft <= LoftMax) THEN ValueError("range", "loft")
    ELSE IF ~(LieMin <= b.lie /\ b.lie <= LieMax) THEN ValueError("range", "lie")
    ELSE NoError

\* The cross-section drawn with the blade's topline_thickness field as the
\* width of its top.
profile_points_topline(b) ==
    << 0, 0,
       0, b.face_height,
       b.topline_thickness, b.face_height,
       700, (b.face_height * 3) \div 10,
       700, 0 >>

\* The cross-section kept in a list that every blade built shares: a
\* second invocation appends its points to those of the first.
profile_points_shared(b) ==
    LET points == << 0, 0,
                     0, b.face_height,
                     300, b.face_height,
                     700, (b.face_height * 3) \div 10,
                     700, 0 >>
    IN  IF prior = << >> THEN points ELSE points \o points

\* The closed cross-section of the blade on the YZ plane, as y, z pairs.
profile_points(b) ==
    << 0, 0,
       0, b.face_height,
       300, b.face_height,
       700, (b.face_height * 3) \div 10,
       700, 0 >>

\* The kernel operations of WedgeBlade.generate before the topline fillet.
BladeBody(b) ==
    << KernelOp("polyline", "YZ", profile_points(b)),
       KernelOp("extrude", "", << b.blade_length >>),
       KernelOp("translate", "", << -(b.blade_length \div 2), 0, 0 >>),
       KernelOp("rotate", "", << 0, 0, 0, 1, 0, 0, -b.loft >>) >>

ToplineFillet == KernelOp("fillet", "|X >Z", << ToplineFilletRadius >>)

\* groove_config of generate_wedge: wedge_specs['face']['grooves'], read by
\* add_grooves with its defaults.
HasGrooves(c) == "face.grooves" \in c.present

groove_config(c) ==
    [ spacing |-> Get(c, "face.grooves.spacing", DefaultSpacing),
      width |-> Get(c, "face.grooves.width", DefaultGrooveWidth),
      depth |-> Get(c, "face.grooves.depth", DefaultGrooveDepth),
      count |-> Get(c, "face.grooves.count", DefaultCount),
      edge_clearance |-> Get(c, "face.grooves.edge_clearance",
                             DefaultEdgeClearance) ]

groove_start_z(g) == g.edge_clearance

groove_end_z(b, g) == b.face_height - g.edge_clearance

available_height(b, g) == groove_end_z(b, g) - groove_start_z(g)

\* add_grooves: min(count, int(available_height / spacing) + 1).
ActualCount(b, g) ==
    Min(g.count, IntTrunc(available_height(b, g), g.spacing) + 1)

z_pos(g, n) == groove_start_z(g) + n * g.spacing

\* The cutter of groove n (a triangular prism) and its subtraction.
GrooveCutter(b, g, n) ==
    << KernelOp("polyline", "XZ",
                << -(b.blade_length \div 2) - 500, z_pos(g, n),
                   -(b.blade_length \div 2) - 500, z_pos(g, n) - g.depth,
                   -(b.blade_length \div 2) - 500 + g.width, z_pos(g, n) >>),
       KernelOp("extrude", "", << b.blade_length + 1000 >>),
       KernelOp("translate", "", << 0, 500, 0 >>) >>

GrooveCut(g, n) == KernelOp("cut", "groove", << n, z_pos(g, n) >>)

\* The blade add_grooves carries on with after the body of the try failed
\* for one groove: the local variable blade was not reassigned.
BladeAfterFailedGrooveLost(blade) == SelectSeq(blade, LAMBDA k : k.op # "cut")

BladeAfterFailedGroove(blade) == blade

\* The loop index after the iteration for groove n.
NextGrooveBreak(n, ok, count) == IF ok THEN n + 1 ELSE count

NextGroove(n, ok, count) == n + 1

\* blade = WedgeBlade(wedge_specs); blade.validate()
BladeValidate ==
    /\ pc = "blade_validate"
    /\ builders' = [ builders EXCEPT !.blade = WedgeBlade(cfg) ]
    /\ LET e == WedgeBlade_validate(builders'.blade)
       IN  IF e = NoError
           THEN /\ pc' = "blade_generate"
                /\ UNCHANGED raised
           ELSE Raise(e)
    /\ UNCHANGED << entry, cfg, asked, sched, solids, kernel_calls, grooveLoop, out, results >>

\* WedgeBlade.generate; the topline fillet may fail and is then skipped
\* without a message.
BladeGenerate ==
    /\ pc = "blade_generate"
    /\ \E ok \in BOOLEAN :
         LET body == BladeBody(builders.blade)
         IN  /\ asked' = asked \cup { Answer(body, ToplineFillet, ok) }
             /\ blade_geometry' =
                  IF ok THEN Append(body, ToplineFillet) ELSE body
             /\ kernel_calls' =
                  Append(kernel_calls \o Calls(body), Call(ToplineFillet, ok))
             /\ IF AfterFeature(ok, "topline") = NoError
                THEN /\ pc' = IF entry # "blade" /\ ~HasGrooves(cfg)
                              THEN Return("blade", "sole_validate")
                              ELSE "add_grooves"
                     /\ UNCHANGED raised
                ELSE Raise(AfterFeature(ok, "topline"))
    /\ UNCHANGED << entry, cfg, builders, sched, hosel_geometry, sole_geometry, wedge,
                    grooveLoop, out, results >>
    /\ KernelFunctional'
    /\ KernelDeterministic'

\* The document after add_grooves took the count with pop in place of get:
\* the key is gone from the dictionary, which is the loaded document's own.
groove_config_popped(c) ==
    [ c EXCEPT !.present = @ \ { "face.grooves.count" } ]

\* The document after add_grooves has read its five settings: groove_config
\* is the loaded document's own dictionary, and .get leaves it as it was.
groove_config_read(c) == c

\* add_grooves up to its loop: the count of grooves and the line printed.
AddGroovesBegin ==
    /\ pc = "add_grooves"
    /\ LET n == ActualCount(builders.blade, groove_config(cfg))
       IN  /\ actual_count' = n
           /\ out' = Append(out, [ msg |-> "Adding grooves (USGA compliant)", n |-> n ])
    /\ cfg' = groove_config_read(cfg)
    /\ i' = 0
    /\ pc' = "groove_loop"
    /\ UNCHANGED << entry, builders, asked, sched, solids, kernel_calls, raised,
                    results >>

\* One iteration of the loop of add_grooves: the cutter is built and cut
\* from the blade; a failure of either is caught, reported and skipped.
GrooveIteration ==
    /\ pc = "groove_loop"
    /\ i < actual_count
    /\ LET b == builders.blade
           g == groove_config(cfg)
           cutter == GrooveCutter(b, g, i)
       IN  \E failAt \in { "none", "extrude", "cut" } :
             /\ asked' =
                  asked \cup
                  { Answer(<< cutter[1] >>, cutter[2], failAt # "extrude") } \cup
                  IF failAt = "extrude" THEN { }
                  ELSE { Answer(blade_geometry, GrooveCut(g, i), failAt = "none") }
             /\ blade_geometry' =
                  IF failAt = "none"
                  THEN Append(blade_geometry, GrooveCut(g, i))
                  ELSE BladeAfterFailedGroove(blade_geometry)
             /\ kernel_calls' =
                  IF failAt = "extrude"
                  THEN kernel_calls \o << Call(cutter[1], TRUE),
                                          Call(cutter[2], FALSE) >>
                  ELSE Append(kernel_calls \o Calls(cutter),
                              Call(GrooveCut(g, i), failAt = "none"))
             /\ out' =
                  IF failAt = "none" THEN out
                  ELSE Append(out, [ msg |-> "Could not add groove",
                                     n |-> i + 1 ])
             /\ i' = NextGroove(i, failAt = "none", actual_count)
             /\ IF AfterFeature(failAt = "none", "groove") = NoError
                THEN UNCHANGED << pc, raised >>
                ELSE Raise(AfterFeature(failAt = "none", "groove"))
    /\ UNCHANGED << entry, cfg, builders, sched, hosel_geometry, sole_geometry, wedge,
                    actual_count, results >>
    /\ KernelFunctional'
    /\ KernelDeterministic'

AddGroovesReturn ==
    /\ pc = "groove_loop"
    /\ i >= actual_count
    /\ pc' = Return("blade", "sole_validate")
    /\ UNCHANGED << entry, cfg, builders, asked, sched, solids, kernel_calls,
                    grooveLoop, raised, out,
                    results >>

\* -------------------------------------------------------------- WedgeSole

\* WedgeSole.__init__: the fields the builder reads, with their defaults.
WedgeSole(c) ==
    [ width_center |-> Get(c, "sole.width_center", DefaultWidthCenter),
      leading_edge_radius |->
          Get(c, "sole.leading_edge_radius", DefaultLeadingEdgeRadius),
      heel_relief_angle |->
          Get(c, "sole.heel_relief_angle", DefaultHeelReliefAngle),
      toe_relief_angle |->
          Get(c, "sole.toe_relief_angle", DefaultToeReliefAngle),
      bounce |-> Get(c, "bounce", DefaultBounce) ]

\* WedgeSole.validate: the exception it raises, or NoError.
WedgeSole_validate(s) ==
    IF ~(BounceMin <= s.bounce /\ s.bounce <= BounceMax)
    THEN ValueError("range", "bounce")
    ELSE IF ~(SoleWidthMin <= s.width_center /\ s.width_center <= SoleWidthMax)
    THEN ValueError("range", "width_center")
    ELSE NoError

\* generate_flat_sole drawing on a workplane object shared with the hosel
\* builder: the slab is added to whatever that builder has left on it.
generate_flat_sole_shared(s, blade_length) ==
    hosel_geometry \o
    << KernelOp("box", "XY", << blade_length, s.width_center, SoleThickness >>),
       KernelOp("translate", "", << 0, 0, -(SoleThickness \div 2) >>),
       KernelOp("rotate", "",
                << 0, -(s.width_center \div 2), 0, 1, 0, 0, s.bounce >>) >>

\* generate_flat_sole tilting the slab before it is moved below z = 0.
generate_flat_sole_tilt_first(s, blade_length) ==
    << KernelOp("box", "XY", << blade_length, s.width_center, SoleThickness >>),
       KernelOp("rotate", "",
                << 0, -(s.width_center \div 2), 0, 1, 0, 0, s.bounce >>),
       KernelOp("translate", "", << 0, 0, -(SoleThickness \div 2) >>) >>

\* WedgeSole.generate_flat_sole: the slab, moved below z = 0 and tilted by
\* the bounce about the leading edge.
generate_flat_sole(s, blade_length) ==
    << KernelOp("box", "XY", << blade_length, s.width_center, SoleThickness >>),
       KernelOp("translate", "", << 0, 0, -(SoleThickness \div 2) >>),
       KernelOp("rotate", "",
                << 0, -(s.width_center \div 2), 0, 1, 0, 0, s.bounce >>) >>

LeadingEdgeFillet(s) == KernelOp("fillet", "<Y", << s.leading_edge_radius >>)

\* heel_chamfer and toe_chamfer of add_heel_toe_relief: angle * 0.5.
heel_chamfer(s) == s.heel_relief_angle \div 2

toe_chamfer(s) == s.toe_relief_angle \div 2

HeelChamfer(s) == KernelOp("chamfer", "<X |Z", << heel_chamfer(s) >>)

ToeChamfer(s) == KernelOp("chamfer", ">X |Z", << toe_chamfer(s) >>)

\* sole = WedgeSole(wedge_specs); sole.validate()
SoleValidate ==
    /\ pc = "sole_validate"
    /\ builders' = [ builders EXCEPT !.sole = WedgeSole(cfg) ]
    /\ LET e == WedgeSole_validate(builders'.sole)
       IN  IF e = NoError
           THEN /\ pc' = "flat_sole"
                /\ UNCHANGED raised
           ELSE Raise(e)
    /\ UNCHANGED << entry, cfg, asked, sched, solids, kernel_calls, grooveLoop, out, results >>

\* generate_with_grind, first step: the flat sole.
GenerateFlatSole ==
    /\ pc = "flat_sole"
    /\ LET ops == generate_flat_sole(builders.sole,
                                  Get(cfg, "blade_length", DefaultBladeLength))
       IN  /\ sole_geometry' = ops
           /\ kernel_calls' = kernel_calls \o Calls(ops)
    /\ pc' = "leading_edge"
    /\ UNCHANGED << entry, cfg, builders, asked, sched, hosel_geometry, blade_geometry, wedge,
                    grooveLoop, raised, out, results >>

\* add_leading_edge_radius: the fillet may fail and is then skipped without
\* a message.
AddLeadingEdgeRadius ==
    /\ pc = "leading_edge"
    /\ \E ok \in BOOLEAN :
         LET f == LeadingEdgeFillet(builders.sole)
             e == AfterFeature(ok, "leading_edge")
         IN  /\ asked' = asked \cup { Answer(sole_geometry, f, ok) }
             /\ kernel_calls' = Append(kernel_calls, Call(f, ok))
             /\ sole_geometry' =
                  IF ok THEN Append(sole_geometry, f) ELSE sole_geometry
             /\ IF e = NoError
                THEN /\ pc' = "heel_toe_relief"
                     /\ UNCHANGED raised
                ELSE Raise(e)
    /\ UNCHANGED << entry, cfg, builders, sched, hosel_geometry, blade_geometry, wedge,
                    grooveLoop, out, results >>
    /\ KernelFunctional'
    /\ KernelDeterministic'

\* add_heel_toe_relief: one try block holds the heel chamfer and then the
\* toe chamfer; the first failure leaves the block, with a message.
AddHeelToeRelief ==
    /\ pc = "heel_toe_relief"
    /\ \E failAt \in { "none", "heel", "toe" } :
         LET s == builders.sole
             e == AfterFeature(failAt = "none", "heel_toe_relief")
         IN  /\ asked' =
                  asked \cup
                  { Answer(sole_geometry, HeelChamfer(s), failAt # "heel") } \cup
                  IF failAt = "heel" THEN { }
                  ELSE { Answer(Append(sole_geometry, HeelChamfer(s)),
                                ToeChamfer(s), failAt = "none") }
             /\ kernel_calls' =
                  IF failAt = "heel"
                  THEN Append(kernel_calls, Call(HeelChamfer(s), FALSE))
                  ELSE kernel_calls \o << Call(HeelChamfer(s), TRUE),
                                          Call(ToeChamfer(s), failAt = "none") >>
             /\ sole_geometry' =
                  CASE failAt = "heel" -> sole_geometry
                    [] failAt = "toe" -> Append(sole_geometry, HeelChamfer(s))
                    [] OTHER -> sole_geometry \o << HeelChamfer(s), ToeChamfer(s) >>
             /\ out' =
                  IF failAt = "none" THEN out
                  ELSE Append(out, [ msg |-> "Could not apply full heel/toe relief",
                                     n |-> 0 ])
             /\ IF e = NoError
                THEN /\ pc' = Return("sole", "assemble")
                     /\ UNCHANGED raised
                ELSE Raise(e)
    /\ UNCHANGED << entry, cfg, builders, sched, hosel_geometry, blade_geometry, wedge,
                    grooveLoop, results >>
    /\ KernelFunctional'
    /\ KernelDeterministic'

\* ------------------------------------------------------------ WedgeConfig

required_fields == << "loft", "lie", "bounce" >>

\* The first required field that WedgeConfig.get finds missing, 0 if none.
FirstMissing(c) ==
    IF \E n \in 1..Len(required_fields) : required_fields[n] \notin c.present
    THEN CHOOSE n \in 1..Len(required_fields) :
           /\ required_fields[n] \notin c.present
           /\ \A m \in 1..(n - 1) : required_fields[m] \in c.present
    ELSE 0

\* WedgeConfig._validate: the exception it raises, or NoError.  The three
\* required fields must be present; loft and bounce are range-checked.
WedgeConfig_validate(c) ==
    IF FirstMissing(c) # 0
    THEN ValueError("Required field missing", required_fields[FirstMissing(c)])
    ELSE IF ~(LoftMin <= c.val["loft"] /\ c.val["loft"] <= LoftMax)
    THEN ValueError("must be between", "loft")
    ELSE IF ~(BounceMin <= c.val["bounce"] /\ c.val["bounce"] <= BounceMax)
    THEN ValueError("must be between", "bounce")
    ELSE NoError

\* ---------------------------------------------------------- generate_wedge

\* math.sin and math.cos of the loft, in ten-thousandths, for the lofts the
\* pipeline is run with.
sin_loft(loft) ==
    CASE loft = 4500 -> 7071
      [] loft = 5600 -> 8290
      [] loft = 6400 -> 8988
      [] OTHER -> 0

cos_loft(loft) ==
    CASE loft = 4500 -> 7071
      [] loft = 5600 -> 5592
      [] loft = 6400 -> 4384
      [] OTHER -> 10000

heel_x(c) == -(Get(c, "blade_length", DefaultBladeLength) \div 2) + HeelInset

\* top_offset_y taken with the cosine.
top_offset_y_cos(c) ==
    (Get(c, "face_height", DefaultFaceHeight) * cos_loft(Get(c, "loft", DefaultLoft)))
        \div 10000

top_offset_y(c) ==
    (Get(c, "face_height", DefaultFaceHeight) * sin_loft(Get(c, "loft", DefaultLoft)))
        \div 10000

top_offset_z(c) ==
    (Get(c, "face_height", DefaultFaceHeight) * cos_loft(Get(c, "loft", DefaultLoft)))
        \div 10000

\* The hosel tilted to the lie where it was built, and translated after.
HoselPlacementTiltFirst(c) ==
    << KernelOp("rotate", "",
                << heel_x(c), top_offset_y(c), top_offset_z(c), 1, 0, 0,
                   -(9000 - Get(c, "lie", DefaultLie)) >>),
       KernelOp("translate", "", << heel_x(c), top_offset_y(c), top_offset_z(c) >>) >>

\* The translation and the lie rotation that position the hosel.
HoselPlacement(c) ==
    << KernelOp("translate", "", << heel_x(c), top_offset_y(c), top_offset_z(c) >>),
       KernelOp("rotate", "",
                << heel_x(c), top_offset_y(c), top_offset_z(c), 1, 0, 0,
                   -(9000 - Get(c, "lie", DefaultLie)) >>) >>

Union == KernelOp("union", "", << >>)

\* load_config: WedgeConfig.__init__ validates the document.
LoadConfig ==
    /\ pc = "load_config"
    /\ LET e == WedgeConfig_validate(cfg)
       IN  IF e = NoError
           THEN /\ pc' = "hosel_validate"
                /\ out' = Append(out, [ msg |-> "Configuration validated", n |-> 0 ])
                /\ UNCHANGED raised
           ELSE /\ Raise(e)
                /\ UNCHANGED out
    /\ UNCHANGED << entry, cfg, builders, asked, sched, solids, kernel_calls, grooveLoop, results >>

\* Step 4 of generate_wedge: the hosel is translated, rotated, and the three
\* solids are united, blade with sole first.
Assemble ==
    /\ pc = "assemble"
    /\ LET place == HoselPlacement(cfg)
       IN  /\ wedge' = << blade_geometry, sole_geometry, hosel_geometry \o place >>
           /\ kernel_calls' = kernel_calls \o Calls(place \o << Union, Union >>)
    /\ pc' = "validate"
    /\ UNCHANGED << entry, cfg, builders, asked, sched, hosel_geometry,
                    blade_geometry, sole_geometry,
                    grooveLoop, raised, out, results >>

\* ------------------------------------------------------------ validation

\* The material names documents carry, each as the pieces between which
\* str.replace looks for a blank.  The first is the web form's.
material_types ==
    << << "8620", " ", "carbon", " ", "steel" >>,
       << "304", "_", "stainless" >>,
       << "carbon", " ", "steel" >>,
       << "titanium" >>,
       << "1020", "_", "steel" >>,
       << "431", "_", "stainless" >>,
       << "8620", "_", "steel" >> >>

\* str.replace(old, new) on a name.
Replace(name, old, new) ==
    [ n \in 1..Len(name) |-> IF name[n] = old THEN new ELSE name[n] ]

\* Densities in hundredths of g/cm3.
MATERIAL_DENSITIES ==
    (<< "8620", "_", "steel" >> :> 785)
    @@ (<< "1020", "_", "steel" >> :> 787)
    @@ (<< "304", "_", "stainless" >> :> 800)
    @@ (<< "431", "_", "stainless" >> :> 775)
    @@ (<< "carbon", "_", "steel" >> :> 785)

\* MATERIAL_DENSITIES.get(material, 7.85).
DensityNoFallback(material) ==
    IF material \in DOMAIN MATERIAL_DENSITIES THEN MATERIAL_DENSITIES[material]
    ELSE 0

Density(material) ==
    IF material \in DOMAIN MATERIAL_DENSITIES THEN MATERIAL_DENSITIES[material]
    ELSE DefaultDensity

\* calculate_weight: the volume the kernel measured, in mm3, to grams (in
\* hundredths).  The volumes drawn are whole cm3, so the division is exact.
calculate_weight(volume_mm3, material) == (volume_mm3 \div 1000) * Density(material)

\* validate_weight: the verdict and the lines it prints.
validate_weight(actual, target, tolerance) ==
    LET variance == Abs(actual - target)
    IN  IF variance <= tolerance
        THEN [ ok |-> TRUE,
               lines |-> << [ msg |-> "Weight OK", n |-> actual ] >> ]
        ELSE [ ok |-> FALSE,
               lines |-> << [ msg |-> "Weight variance", n |-> variance ],
                            [ msg |-> "Actual", n |-> actual ] >> ]

cg_ok_labels == << "CG X (from face)", "CG Y (from heel)", "CG Z (from sole)" >>

cg_variance_labels ==
    << "CG X (from face) variance", "CG Y (from heel) variance",
       "CG Z (from sole) variance" >>

\* The body of the loop of validate_center_of_gravity for axis n.
CgWithin(actual_cg, target_cg, tolerance, n) ==
    Abs(actual_cg[n] - target_cg[n]) <= tolerance

CgLine(actual_cg, target_cg, tolerance, n) ==
    IF CgWithin(actual_cg, target_cg, tolerance, n)
    THEN [ msg |-> cg_ok_labels[n], n |-> actual_cg[n] ]
    ELSE [ msg |-> cg_variance_labels[n], n |-> Abs(actual_cg[n] - target_cg[n]) ]

\* validate_center_of_gravity leaving its loop at the first axis out of
\* tolerance.
validate_center_of_gravity_break(actual_cg, target_cg, tolerance) ==
    LET bad == { n \in 1..3 : ~CgWithin(actual_cg, target_cg, tolerance, n) }
        last == IF bad = { } THEN 3 ELSE CHOOSE n \in bad : \A m \in bad : n <= m
    IN  [ ok |-> bad = { },
          lines |-> [ n \in 1..last |-> CgLine(actual_cg, target_cg, tolerance, n) ] ]

\* validate_center_of_gravity: every axis is compared and reported.
validate_center_of_gravity(actual_cg, target_cg, tolerance) ==
    [ ok |-> \A n \in 1..3 : CgWithin(actual_cg, target_cg, tolerance, n),
      lines |-> [ n \in 1..3 |-> CgLine(actual_cg, target_cg, tolerance, n) ] ]

\* all(results.values()) and the closing line.
Verdict(res) ==
    IF res.weight /\ res.cg /\ res.geometry
    THEN [ msg |-> "ALL VALIDATIONS PASSED", n |-> 0 ]
    ELSE [ msg |-> "SOME VALIDATIONS FAILED", n |-> 0 ]

\* validate_wedge_geometry on what the kernel measured.  validate_weight and
\* validate_center_of_gravity are called without a tolerance argument.
validate_wedge_geometry(c, volume_mm3, centre, is_valid) ==
    LET target_weight == Get(c, "weight.target_head_weight", DefaultTargetWeight)
        material == material_types[Get(c, "material.type", 7)]
        actual_weight == calculate_weight(volume_mm3, Replace(material, " ", "_"))
        weight == validate_weight(actual_weight, target_weight, DefaultWeightTolerance)
        target_cg ==
            << Get(c, "weight.center_of_gravity.from_face", DefaultFromFace),
               Get(c, "weight.center_of_gravity.from_heel", DefaultFromHeel),
               Get(c, "weight.center_of_gravity.from_sole", DefaultFromSole) >>
        cg == validate_center_of_gravity(centre, target_cg, DefaultCgTolerance)
        geometry ==
            IF is_valid THEN [ msg |-> "Geometry is valid", n |-> 0 ]
            ELSE [ msg |-> "Geometry has errors", n |-> 0 ]
        res == [ weight |-> weight.ok, cg |-> cg.ok, geometry |-> is_valid ]
    IN  [ results |-> res,
          lines |-> weight.lines \o cg.lines \o << geometry, Verdict(res) >> ]

\* What generate_wedge does with the validation results: it keeps them in a
\* local and goes on.
AfterValidationFatal(validation) ==
    IF validation.weight /\ validation.cg /\ validation.geometry THEN NoError
    ELSE [ exc |-> "ValidationMismatchError", what |-> "validation", field |-> "" ]

AfterValidation(validation) == NoError

\* Volumes the kernel may measure, in mm3.
Volumes == { 36000, 37000, 38000 }

\* Centroids the kernel may measure.
Centroids == { << 2200, 3700, 1900 >>, << 2300, 3700, 1900 >> }

\* Step 5 of generate_wedge: validate_wedge_geometry on the assembled solid.
ValidateGeometry ==
    /\ pc = "validate"
    /\ \E volume_mm3 \in Volumes, centre \in Centroids, is_valid \in BOOLEAN :
         LET v == validate_wedge_geometry(cfg, volume_mm3, centre, is_valid)
             e == AfterValidation(v.results)
         IN  /\ asked' =
                  asked \cup
                  { Answer(wedge, KernelOp("Volume", "", << >>), << volume_mm3 >>),
                    Answer(wedge, KernelOp("CenterOfMass", "", << >>), centre),
                    Answer(wedge, KernelOp("isValid", "", << >>), << is_valid >>) }
             /\ kernel_calls' =
                  kernel_calls \o Calls(<< KernelOp("Volume", "", << volume_mm3 >>),
                                           KernelOp("CenterOfMass", "", centre),
                                           KernelOp("isValid", "", << is_valid >>) >>)
             /\ out' = out \o v.lines
             /\ IF e = NoError
                THEN /\ validation_results' = v.results
                     /\ pc' = "export"
                     /\ UNCHANGED raised
                ELSE /\ Raise(e)
                     /\ UNCHANGED validation_results
    /\ UNCHANGED << entry, cfg, builders, sched, solids, grooveLoop, step_path,
                    grind_type, world >>
    /\ KernelFunctional'
    /\ KernelDeterministic'

\* ------------------------------------------------------------------ export

\* The clock counts half seconds.
TicksPerSecond == 2

\* datetime.now().strftime('%Y%m%d_%H%M%S'): the clock cut to the second.
timestamp(t) == t \div TicksPerSecond

\* The file name export_step builds; the documents drawn carry no name, so
\* it is the default one, which sanitising leaves as it is.
filename(c, t) == << "wedge", Get(c, "loft", 0), Get(c, "bounce", 0), timestamp(t) >>

\* Time passes.  Only the reading export_step takes is observed, so the
\* clock is advanced just before it.
Tick ==
    /\ pc = "export"
    /\ now < MaxTime
    /\ now' = now + 1
    /\ UNCHANGED << pc, entry, cfg, builders, asked, sched, solids, kernel_calls,
                    grooveLoop, raised, out,
                    validation_results, step_path, grind_type, files, prior,
                    session_state >>

\* export_step: the file is written and its path returned.
ExportStep ==
    /\ pc = "export"
    /\ step_path' = filename(cfg, now)
    /\ files' = files \cup { filename(cfg, now) }
    /\ kernel_calls' = Append(kernel_calls, Call(KernelOp("export", "", << >>), TRUE))
    /\ pc' = "done"
    /\ UNCHANGED << entry, cfg, builders, asked, sched, solids, grooveLoop, raised, out,
                    validation_results, grind_type, now, prior, session_state >>

\* generate_wedge is invoked once more on the same document: what the first
\* invocation returned is kept aside, its locals are gone.
InvokeAgain ==
    /\ pc = "done"
    /\ entry = "generate_wedge"
    /\ prior = << >>
    /\ prior' = << [ kernel_calls |-> kernel_calls, wedge |-> wedge,
                     validation_results |-> validation_results,
                     step_path |-> step_path, out |-> out, at |-> now ] >>
    /\ pc' = "load_config"
    /\ hosel_geometry' = << >>
    /\ blade_geometry' = << >>
    /\ sole_geometry' = << >>
    /\ wedge' = << >>
    /\ kernel_calls' = << >>
    /\ i' = 0
    /\ actual_count' = 0
    /\ out' = << >>
    /\ validation_results' = << >>
    /\ step_path' = << >>
    /\ builders' = NoBuilders
    /\ UNCHANGED << entry, cfg, asked, sched, raised, grind_type, now, files,
                    session_state >>

\* ------------------------------------------------- the builds in any order

Builders == { "hosel", "blade", "sole" }

\* The first statement of each of the three builds of generate_wedge.
FirstStep(b) ==
    CASE b = "hosel" -> "hosel_validate"
      [] b = "blade" -> "blade_validate"
      [] b = "sole" -> "sole_validate"

\* The three builds of generate_wedge are run once more on the document of
\* a call whose sequential builds have been assembled, this time stepped in
\* any order; what the sequential builds made is kept aside.
InvokeAnyOrder ==
    /\ pc = "validate"
    /\ entry = "generate_wedge"
    /\ prior = << >>
    /\ prior' = << [ kernel_calls |-> kernel_calls, wedge |-> wedge,
                     validation_results |-> validation_results,
                     step_path |-> step_path, out |-> out, at |-> now ] >>
    /\ entry' = "any_order"
    /\ pc' = "fork"
    /\ sched' = [ running |-> "none", saved |-> [ b \in Builders |-> FirstStep(b) ] ]
    /\ builders' = NoBuilders
    /\ hosel_geometry' = << >>
    /\ blade_geometry' = << >>
    /\ sole_geometry' = << >>
    /\ wedge' = << >>
    /\ kernel_calls' = << >>
    /\ i' = 0
    /\ actual_count' = 0
    /\ out' = << >>
    /\ UNCHANGED << cfg, asked, raised, validation_results, step_path, grind_type,
                    now, files, session_state >>

\* The build in progress is set aside where it stands and build b goes on
\* from where it stood.
Switch(b) ==
    /\ entry = "any_order"
    /\ pc \notin { "raised", "assemble", "validate", "export", "done" }
    /\ sched.running # b
    /\ sched.saved[b] # "built"
    /\ sched' = [ running |-> b,
                  saved |-> IF sched.running = "none" THEN sched.saved
                            ELSE [ sched.saved EXCEPT ![sched.running] = pc ] ]
    /\ pc' = sched.saved[b]
    /\ UNCHANGED << entry, cfg, builders, asked, solids, kernel_calls, grooveLoop,
                    raised, out, results >>

\* All three builds have returned: step 4 of generate_wedge follows.
Join ==
    /\ entry = "any_order"
    /\ pc = "built"
    /\ \A b \in Builders \ { sched.running } : sched.saved[b] = "built"
    /\ pc' = "assemble"
    /\ sched' = NoSched
    /\ UNCHANGED << entry, cfg, builders, asked, solids, kernel_calls, grooveLoop,
                    raised, out, results >>

\* ------------------------------------------------------------------ app.py

HighRelief == "High Relief (S-Grind style)"

WideSole == "Wide Sole (K-Grind style)"

LowBounce == "Low Bounce (L-Grind style)"

Standard == "Standard (F/M-Grind style)"

\* The if/elif chain that labels the grind profile.
GrindInclusive(heel_relief, toe_relief, sole_width, bounce) ==
    IF heel_relief >= HighReliefLimit \/ toe_relief >= HighReliefLimit THEN HighRelief
    ELSE IF sole_width >= WideSoleLimit THEN WideSole
    ELSE IF bounce <= LowBounceLimit THEN LowBounce
    ELSE Standard

Grind(heel_relief, toe_relief, sole_width, bounce) ==
    IF heel_relief > HighReliefLimit \/ toe_relief > HighReliefLimit THEN HighRelief
    ELSE IF sole_width > WideSoleLimit THEN WideSole
    ELSE IF bounce < LowBounceLimit THEN LowBounce
    ELSE Standard

\* The placement of the hosel by the web form's handler: 10 mm in from the
\* heel, 45 mm up, tilted to the lie about that point.
AppHoselPlacement(c) ==
    << KernelOp("translate", "",
                << -(c.val["blade_length"] \div 2) + 1000, 0, 4500 >>),
       KernelOp("rotate", "",
                << -(c.val["blade_length"] \div 2) + 1000, 0, 4500, 1, 0, 0,
                   -(9000 - c.val["lie"]) >>) >>

\* The file name the handler builds: the wedge name the form proposes,
\* Custom_<loft>_<bounce>, which has no space to replace, then loft, bounce
\* and the clock cut to the second.
app_filename(c, t) ==
    << "Custom", c.val["loft"], c.val["bounce"],
       c.val["loft"], c.val["bounce"], timestamp(t) >>

\* One iteration of add_grooves in the handler, the kernel failing at most
\* MaxFailed operations in the run.
AppGrooveIteration ==
    /\ GrooveIteration
    /\ Failures(kernel_calls') <= MaxFailed

\* "Assembling components...": the hosel is placed and the solids united.
AppAssemble ==
    /\ pc = "app_assemble"
    /\ LET place == AppHoselPlacement(cfg)
       IN  /\ wedge' = << blade_geometry, sole_geometry, hosel_geometry \o place >>
           /\ kernel_calls' = kernel_calls \o Calls(place \o << Union, Union >>)
    /\ pc' = "app_export"
    /\ UNCHANGED << entry, cfg, builders, asked, sched, hosel_geometry,
                    blade_geometry, sole_geometry, grooveLoop, raised, out, results >>

\* "Calculating metrics..." and "Exporting STEP file...": the weight as
\* 8620 steel, the centroid, the file written, the session state stored.
AppExport ==
    /\ pc = "app_export"
    /\ \E volume_mm3 \in Volumes, centre \in Centroids :
         /\ asked' =
              asked \cup
              { Answer(wedge, KernelOp("Volume", "", << >>), << volume_mm3 >>),
                Answer(wedge, KernelOp("CenterOfMass", "", << >>), centre) }
         /\ kernel_calls' =
              kernel_calls \o Calls(<< KernelOp("Volume", "", << volume_mm3 >>),
                                       KernelOp("CenterOfMass", "", centre),
                                       KernelOp("export", "", << >>) >>)
         /\ session_state' =
              [ last_file |-> app_filename(cfg, now),
                last_weight |-> calculate_weight(volume_mm3, material_types[7]),
                last_cg |-> centre ]
    /\ step_path' = app_filename(cfg, now)
    /\ files' = files \cup { app_filename(cfg, now) }
    /\ pc' = "done"
    /\ UNCHANGED << entry, cfg, builders, sched, solids, grooveLoop, raised, out,
                    validation_results, grind_type, now, prior >>
    /\ KernelFunctional'

\* The design summary of the web form computes the label from the widgets.
GrindProfile ==
    /\ pc = "grind_profile"
    /\ grind_type' = Grind(cfg.val["sole.heel_relief_angle"],
                           cfg.val["sole.toe_relief_angle"],
                           cfg.val["sole.width_center"],
                           cfg.val["bounce"])
    /\ pc' = "done"
    /\ UNCHANGED << entry, cfg, builders, asked, sched, solids, kernel_calls,
                    grooveLoop, raised, out,
                    validation_results, step_path, world >>

\* ------------------------------------------------------------------ inputs

\* Hosel documents: bore diameters around 9.4 +/- 0.1, bore depths around
\* the heights and around zero, a hosel of no height, outer diameters around
\* bore + 3; also the empty document.
HoselConfigs ==
    { MakeConfig({}, ("hosel.height" :> h) @@ ("hosel.outer_diameter" :> od)
                     @@ ("hosel.bore_diameter" :> bd) @@ ("hosel.bore_depth" :> dp)) :
        h \in { 0, 3800, 4200 },
        od \in { 1228, 1230, 1240, 1250, 1450 },
        bd \in { 928, 930, 940, 950, 952, 960 },
        dp \in { -500, 0, 3000, 3800, 4200 } }
    \cup { MakeConfig({ "hosel.height", "hosel.outer_diameter",
                        "hosel.bore_diameter", "hosel.bore_depth" }, << >>) }

\* Blade and groove documents: face heights from 2 mm to 49 mm, so that the
\* band between the clearances is negative, zero and positive.
GrooveConfigs ==
    { MakeConfig({}, ("face_height" :> fh) @@ ("face.grooves.edge_clearance" :> ec)
                     @@ ("face.grooves.spacing" :> sp)
                     @@ ("face.grooves.count" :> n)) :
        fh \in { 200, 500, 700, 1000, 4900 },
        ec \in { 0, 300, 400 },
        sp \in { 200, 300, 381 },
        n \in 0..MaxCount }

\* Sole documents: bounces and widths around their ranges, relief angles.
SoleConfigs ==
    { MakeConfig({}, ("bounce" :> b) @@ ("sole.width_center" :> w)
                     @@ ("sole.heel_relief_angle" :> hr)
                     @@ ("sole.toe_relief_angle" :> tr)) :
        b \in { -100, 0, 800, 1600, 1700 },
        w \in { 1400, 1500, 2100, 3000, 3100 },
        hr \in { 0, 150, 400 },
        tr \in { 0, 200 } }

\* Widget values of the web form around the three limits of the grind table.
GrindConfigs ==
    { MakeConfig({}, ("bounce" :> b) @@ ("sole.width_center" :> w)
                     @@ ("sole.heel_relief_angle" :> hr)
                     @@ ("sole.toe_relief_angle" :> tr)) :
        b \in { 0, 500, 600, 700, 1600 },
        w \in { 1500, 2200, 2300, 2400, 3000 },
        hr \in { 0, 240, 250, 260, 400 },
        tr \in { 0, 240, 250, 260, 400 } }

\* The keys validate_wedge_geometry reads with a default.
ValidationKeys ==
    { "weight.target_head_weight", "weight.tolerance",
      "weight.center_of_gravity.from_face", "weight.center_of_gravity.from_heel",
      "weight.center_of_gravity.from_sole", "material.type" }

\* Face height, groove spacing, material, target weight and weight tolerance
\* of the documents drawn: the web form's, a tall face of stainless steel, a
\* spacing above 3.81 with a tolerance of 2 g, an unknown alloy with a
\* tolerance of 10 g.
Variants ==
    { << 1000, 381, 1, 29200, 500 >>,
      << 4900, 381, 2, 29300, 500 >>,
      << 1000, 400, 3, 29400, 200 >>,
      << 1000, 381, 4, 29200, 1000 >> }

\* Documents for generate_wedge: each required field missing or around its
\* range, a hosel that passes or fails each of its checks, a sole width in
\* or out of range, with and without a groove section, with and without the
\* validation targets.
WedgeConfigs ==
    { MakeConfig(missing, ("loft" :> lo) @@ ("lie" :> li) @@ ("bounce" :> b)
                          @@ ("hosel.bore_diameter" :> hz[1])
                          @@ ("hosel.bore_depth" :> hz[2])
                          @@ ("hosel.outer_diameter" :> hz[3])
                          @@ ("sole.width_center" :> w)
                          @@ ("face_height" :> vz[1])
                          @@ ("face.grooves.spacing" :> vz[2])
                          @@ ("material.type" :> vz[3])
                          @@ ("weight.target_head_weight" :> vz[4])
                          @@ ("weight.tolerance" :> vz[5])
                          @@ ("face.grooves.count" :> 2)) :
        missing \in { {}, { "loft" }, { "lie" }, { "bounce" }, { "face.grooves" },
                      ValidationKeys },
        vz \in Variants,
        lo \in { 4400, 4500, 5600, 6500 },
        li \in { 5900, 6000, 6400, 7000 },
        b \in { -100, 0, 800, 1700 },
        hz \in { << 940, 3800, 1450 >>, << 960, 3800, 1450 >>,
                 << 940, 4200, 1450 >>, << 940, 3800, 1200 >> },
        w \in { 2100, 3100 } }

\* ------------------------------------------------------- specifications

\* The objects a caller has constructed before the call `e`: the blade of a
\* direct call of generate and add_grooves, all three in the web form's
\* handler, none where the call constructs them itself.
Constructed(e, c) ==
    [ hosel |-> IF e = "app_generate" THEN WedgeHosel(c) ELSE << >>,
      blade |-> IF e \in { "app_generate", "blade" } THEN WedgeBlade(c) ELSE << >>,
      sole |-> IF e = "app_generate" THEN WedgeSole(c) ELSE << >> ]

\* The state before the call `e` starts at `start` on a document of `C`.
InitCall(e, start, C) ==
    /\ cfg \in C
    /\ entry = e
    /\ pc = start
    /\ hosel_geometry = << >>
    /\ blade_geometry = << >>
    /\ sole_geometry = << >>
    /\ wedge = << >>
    /\ kernel_calls = << >>
    /\ i = 0
    /\ actual_count = 0
    /\ raised = NoError
    /\ out = << >>
    /\ validation_results = << >>
    /\ step_path = << >>
    /\ grind_type = ""
    /\ now = 0
    /\ files = { }
    /\ prior = << >>
    /\ builders = Constructed(e, cfg)
    /\ asked = { }
    /\ sched = NoSched
    /\ session_state = << >>

\* generate_wedge on a configuration document.
Init == InitCall("generate_wedge", "load_config", WedgeConfigs)

Next ==
    \/ LoadConfig
    \/ HoselValidate
    \/ HoselGenerate
    \/ BladeValidate
    \/ BladeGenerate
    \/ AddGroovesBegin
    \/ GrooveIteration
    \/ AddGroovesReturn
    \/ SoleValidate
    \/ GenerateFlatSole
    \/ AddLeadingEdgeRadius
    \/ AddHeelToeRelief
    \/ Assemble
    \/ ValidateGeometry
    \/ Tick
    \/ ExportStep

Spec == Init /\ [][Next]_vars

\* Documents for two invocations in a row: the web form's targets on a
\* short face and stainless steel on a tall one, one groove requested, with
\* a loft in and out of range.
TwiceConfigs ==
    { MakeConfig({ }, ("loft" :> lo)
                      @@ ("face_height" :> vz[1])
                      @@ ("material.type" :> vz[2])
                      @@ ("weight.target_head_weight" :> vz[3])
                      @@ ("face.grooves.count" :> 1)) :
        vz \in { << 1000, 1, 29200 >>, << 4900, 2, 29300 >> },
        lo \in { 5600, 6500 } }

\* generate_wedge invoked twice on the same document, into the same output
\* directory, by the same kernel.
InitTwice == InitCall("generate_wedge", "load_config", TwiceConfigs)

NextTwice == Next \/ InvokeAgain

SpecTwice == InitTwice /\ [][NextTwice]_vars

\* Documents for the builds in any order: with one groove and without a
\* groove section.
AnyOrderConfigs ==
    { MakeConfig(missing, ("face_height" :> 1000) @@ ("face.grooves.count" :> 1)) :
        missing \in { { }, { "face.grooves" } } }

\* generate_wedge up to its assembly, then the three builds again on the
\* same document, by the same kernel, stepped in any order.
InitAnyOrder == InitCall("generate_wedge", "load_config", AnyOrderConfigs)

NextAnyOrder ==
    \/ LoadConfig
    \/ HoselValidate
    \/ HoselGenerate
    \/ BladeValidate
    \/ BladeGenerate
    \/ AddGroovesBegin
    \/ GrooveIteration
    \/ AddGroovesReturn
    \/ SoleValidate
    \/ GenerateFlatSole
    \/ AddLeadingEdgeRadius
    \/ AddHeelToeRelief
    \/ Assemble
    \/ InvokeAnyOrder
    \/ \E b \in Builders : Switch(b)
    \/ Join

SpecAnyOrder == InitAnyOrder /\ [][NextAnyOrder]_vars

\* Widget values of the web form: bore diameters up to the ends of its
\* input, heights and bore depths towards the ends of their sliders, the
\* thinnest and the default wall; eight grooves on a 40 mm face.
AppConfigs ==
    { MakeConfig({ }, ("hosel.bore_diameter" :> bd) @@ ("hosel.height" :> h)
                      @@ ("hosel.bore_depth" :> dp)
                      @@ ("hosel.outer_diameter" :> od)
                      @@ ("face_height" :> 4000)
                      @@ ("face.grooves.count" :> 8)) :
        bd \in { 920, 940, 960 },
        h \in { 3500, 4200 },
        dp \in { 3800, 4500 },
        od \in { 1200, 1450 } }

\* The handler of the "Generate STEP File" button.
InitApp == InitCall("app_generate", "hosel_generate", AppConfigs)

NextApp ==
    \/ HoselGenerate
    \/ BladeGenerate
    \/ AddGroovesBegin
    \/ AppGrooveIteration
    \/ AddGroovesReturn
    \/ GenerateFlatSole
    \/ AddLeadingEdgeRadius
    \/ AddHeelToeRelief
    \/ AppAssemble
    \/ AppExport

SpecApp == InitApp /\ [][NextApp]_vars

\* The hosel builder called on its own: validate, then generate.
InitHosel == InitCall("hosel", "hosel_validate", HoselConfigs)

NextHosel == HoselValidate \/ HoselGenerate

SpecHosel == InitHosel /\ [][NextHosel]_vars

\* The blade builder called on its own: generate, then add_grooves.
InitBlade == InitCall("blade", "blade_generate", GrooveConfigs)

NextBlade == BladeGenerate \/ AddGroovesBegin \/ GrooveIteration \/ AddGroovesReturn

SpecBlade == InitBlade /\ [][NextBlade]_vars

\* The sole grind engine called on its own: validate, then generate_with_grind.
InitSole == InitCall("sole", "sole_validate", SoleConfigs)

NextSole == SoleValidate \/ GenerateFlatSole \/ AddLeadingEdgeRadius \/ AddHeelToeRelief

SpecSole == InitSole /\ [][NextSole]_vars

\* The design summary of the web form.
InitGrind == InitCall("app", "grind_profile", GrindConfigs)

NextGrind == GrindProfile

SpecGrind == InitGrind /\ [][NextGrind]_vars

\* ------------------------------------------------------------------ claims

Max(a, b) == IF a >= b THEN a ELSE b

\* The entries of the kernel trace or of a solid with a given name and selector.
Entries(seq, op, sel) == { n \in 1..Len(seq) : seq[n].op = op /\ seq[n].sel = sel }

\* The groove cutters add_grooves started to build: one per groove attempted.
GroovesAttempted == Cardinality(Entries(kernel_calls, "polyline", "XZ"))

\* The centre offsets of the grooves attempted.
AttemptedZ == { kernel_calls[n].arg[2] : n \in Entries(kernel_calls, "polyline", "XZ") }

\* The usable band B = face_height - 2 * edge_clearance of the document.
Band == WedgeBlade(cfg).face_height - 2 * groove_config(cfg).edge_clearance

\* C1: for every groove configuration with spacing S > 0 the number of
\* grooves add_grooves attempts to cut is min(N, floor(B / S) + 1), where B
\* is the usable band and N the requested count (no grooves when that is
\* not positive), and it never exceeds N.
C1_GrooveCountIsMinOfFloor ==
    (entry = "blade" /\ pc = "done") =>
        /\ GroovesAttempted =
             Max(0, Min(groove_config(cfg).count,
                        (Band \div groove_config(cfg).spacing) + 1))
        /\ GroovesAttempted <= groove_config(cfg).count

\* C2: every groove add_grooves cuts has its centre offset at
\* edge_clearance + i * spacing for i = 0 .. actual_count - 1, and every such
\* offset lies in the band [edge_clearance, face_height - edge_clearance],
\* also when the face height is smaller than twice the edge clearance.
C2_GrooveOffsetsInsideBand ==
    entry = "blade" =>
        \A n \in Entries(kernel_calls, "cut", "groove") :
            LET k == kernel_calls[n]
                g == groove_config(cfg)
            IN  /\ k.arg[1] \in 0..(actual_count - 1)
                /\ k.arg[2] = g.edge_clearance + k.arg[1] * g.spacing
                /\ g.edge_clearance <= k.arg[2]
                /\ k.arg[2] <= WedgeBlade(cfg).face_height - g.edge_clearance

\* C3: the grind label is High Relief exactly when a relief angle exceeds
\* 2.5, whatever the sole width and bounce; otherwise Wide Sole exactly when
\* the sole width exceeds 23; otherwise Low Bounce exactly when the bounce is
\* below 6; otherwise Standard.  The values 2.5, 23 and 6 fall through.
C3_GrindDecisionTable ==
    pc = "done" =>
        LET hr == cfg.val["sole.heel_relief_angle"]
            tr == cfg.val["sole.toe_relief_angle"]
            w == cfg.val["sole.width_center"]
            b == cfg.val["bounce"]
            relief == hr > 250 \/ tr > 250
        IN  /\ grind_type \in { HighRelief, WideSole, LowBounce, Standard }
            /\ (grind_type = HighRelief) = relief
            /\ (grind_type = WideSole) = (~relief /\ w > 2300)
            /\ (grind_type = LowBounce) = (~relief /\ w <= 2300 /\ b < 600)
            /\ (grind_type = Standard) = (~relief /\ w <= 2300 /\ b >= 600)

\* A relief angle above 2.5 wins over a wide sole and a low bounce.
C3_Witness ==
    /\ pc = "done"
    /\ grind_type = HighRelief
    /\ cfg.val["sole.heel_relief_angle"] = 250
    /\ cfg.val["sole.toe_relief_angle"] = 260
    /\ cfg.val["sole.width_center"] = 2400
    /\ cfg.val["bounce"] = 500

\* C4: hosel validation rejects the bore diameter exactly when it deviates
\* from 9.4 mm by more than 0.1 mm, whatever the other hosel parameters.
C4_BoreDiameterTolerance ==
    (entry = "hosel" /\ pc # "hosel_validate") =>
        LET bd == WedgeHosel(cfg).bore_diameter
        IN  (raised = ValueError("standard", "bore_diameter"))
                = (bd < 930 \/ bd > 950)

\* A bore of 9.5 mm, 0.1 mm off, is accepted and the hosel is built.
C4_Witness ==
    /\ entry = "hosel"
    /\ pc = "done"
    /\ WedgeHosel(cfg).bore_diameter = 950
    /\ raised = NoError
    /\ hosel_geometry # << >>

\* C5: hosel validation fails whenever bore depth >= height and whenever
\* outer diameter < bore diameter + 3 mm; it returns True only when bore
\* depth < height, outer diameter >= bore diameter + 3 mm and the bore
\* diameter is within 0.1 mm of 9.4 mm.
C5_HoselValidation ==
    (entry = "hosel" /\ pc # "hosel_validate") =>
        LET h == WedgeHosel(cfg)
        IN  /\ h.bore_depth >= h.height => raised.exc = "ValueError"
            /\ h.outer_diameter - h.bore_diameter < 300 => raised.exc = "ValueError"
            /\ raised = NoError =>
                 /\ h.bore_depth < h.height
                 /\ h.outer_diameter - h.bore_diameter >= 300
                 /\ h.bore_diameter \in 930..950
            /\ (raised = NoError) = (pc \in { "hosel_generate", "done" })

\* A standard bore of sufficient depth margin is rejected for a 2.98 mm wall.
C5_Witness ==
    /\ entry = "hosel"
    /\ pc = "raised"
    /\ WedgeHosel(cfg).bore_diameter = 930
    /\ WedgeHosel(cfg).outer_diameter = 1228
    /\ WedgeHosel(cfg).bore_depth < WedgeHosel(cfg).height
    /\ raised = ValueError("wall", "outer_diameter")

\* The physical constraints whose violation is an invalid-parameter error.
PhysicalFields ==
    { "bore_diameter", "bore_depth", "outer_diameter", "loft", "lie", "bounce" }

\* C6: in generate_wedge, when a physical-constraint check fails, the run
\* aborts before any kernel call has been made.
C6_AbortBeforeKernel ==
    (entry = "generate_wedge" /\ pc = "raised" /\ raised.field \in PhysicalFields)
        => kernel_calls = << >>

\* The configuration was loaded: WedgeConfig._validate returned.
ConfigLoaded == \E n \in 1..Len(out) : out[n].msg = "Configuration validated"

InRange(c, k, lo, hi) == k \in c.present /\ lo <= c.val[k] /\ c.val[k] <= hi

\* C7: loading succeeds only if loft, lie and bounce are present and in
\* [45,64], [60,66] and [0,16]; a failed load names the field.
C7_LoadChecksPresenceAndRange ==
    entry = "generate_wedge" =>
        /\ ConfigLoaded =>
             /\ InRange(cfg, "loft", 4500, 6400)
             /\ InRange(cfg, "lie", 6000, 6600)
             /\ InRange(cfg, "bounce", 0, 1600)
        /\ (pc = "raised" /\ ~ConfigLoaded) => raised.field \in { "loft", "lie", "bounce" }

\* The cosmetic features: a name and selector of the kernel operation.
IsFeature(k) ==
    \/ k.op = "fillet"
    \/ k.op = "chamfer"
    \/ k.op = "cut" /\ k.sel = "groove"

\* The cosmetic features the kernel applied, and those it failed to apply.
FeatureCalls(ok) ==
    { KernelOp(kernel_calls[n].op, kernel_calls[n].sel, kernel_calls[n].arg) :
        n \in { m \in 1..Len(kernel_calls) :
                  IsFeature(kernel_calls[m]) /\ kernel_calls[m].ok = ok } }

\* The cosmetic features a solid carries.
FeaturesOf(solid) == { solid[n] : n \in { m \in 1..Len(solid) : IsFeature(solid[m]) } }

\* C8: no failure of a cosmetic kernel operation propagates: a run ends in
\* an exception only through a parameter check, a run that is not over can
\* always take its next step, and the finished run has exported a wedge
\* whose blade and sole carry exactly the features the kernel applied.
C8_FeatureFailuresRecovered ==
    entry = "generate_wedge" =>
        /\ raised.exc \in { "none", "ValueError" }
        /\ (pc = "raised") = (raised # NoError)
        /\ pc \notin { "done", "raised" } => ENABLED Next
        /\ pc = "done" =>
             /\ step_path # << >>
             /\ Len(wedge) = 3
             /\ FeaturesOf(wedge[1]) \cup FeaturesOf(wedge[2]) = FeatureCalls(TRUE)
             /\ FeatureCalls(FALSE) \cap (FeaturesOf(wedge[1]) \cup FeaturesOf(wedge[2])) = {}

\* A wedge is exported although the topline fillet, the leading-edge fillet,
\* a groove cut and the heel chamfer all failed.
C8_Witness ==
    /\ entry = "generate_wedge"
    /\ pc = "done"
    /\ step_path # << >>
    /\ \E n \in Entries(kernel_calls, "fillet", "|X >Z") : ~kernel_calls[n].ok
    /\ \E n \in Entries(kernel_calls, "fillet", "<Y") : ~kernel_calls[n].ok
    /\ \E n \in Entries(kernel_calls, "cut", "groove") : ~kernel_calls[n].ok
    /\ \E n \in Entries(kernel_calls, "chamfer", "<X |Z") : ~kernel_calls[n].ok

\* The indices of the grooves cut into a blade.
CutIndices(blade) == { blade[n].arg[1] : n \in Entries(blade, "cut", "groove") }

\* The indices of the grooves whose subtraction the kernel carried out.
SucceededIndices ==
    { kernel_calls[n].arg[1] :
        n \in { m \in Entries(kernel_calls, "cut", "groove") : kernel_calls[m].ok } }

\* C9: a failed groove is skipped alone: while add_grooves runs, the blade
\* holds exactly the cuts that succeeded among the grooves 0 .. i-1, and when
\* it returns every groove 0 .. actual_count-1 has been attempted.
C9_FailedGrooveSkippedAlone ==
    (entry = "blade" /\ pc \in { "groove_loop", "done" }) =>
        /\ CutIndices(blade_geometry) = SucceededIndices
        /\ GroovesAttempted = i
        /\ AttemptedZ = { z_pos(groove_config(cfg), n) : n \in 0..(i - 1) }
        /\ pc = "done" => i = Max(0, actual_count)

\* Three grooves attempted; the second failed, the first and third are cut.
C9_Witness ==
    /\ entry = "blade"
    /\ pc = "done"
    /\ actual_count = 3
    /\ GroovesAttempted = 3
    /\ CutIndices(blade_geometry) = { 0, 2 }

\* C10: the heel and toe relief chamfers tolerate failure independently: a
\* failed heel chamfer does not keep the toe chamfer from being attempted,
\* and a failed toe chamfer leaves the applied heel chamfer in place.
C10_ReliefSidesIndependent ==
    (entry = "sole" /\ pc = "done") =>
        /\ (\E n \in Entries(kernel_calls, "chamfer", "<X |Z") : ~kernel_calls[n].ok)
               => Entries(kernel_calls, "chamfer", ">X |Z") # {}
        /\ (\E n \in Entries(kernel_calls, "chamfer", ">X |Z") : ~kernel_calls[n].ok)
               => Entries(sole_geometry, "chamfer", "<X |Z") # {}


\* The assembled solid exists: blade, sole and positioned hosel were united.
Assembled == Len(wedge) = 3

Validated == DOMAIN validation_results # { }

\* C11: in generate_wedge validation runs after assembly and before export,
\* and its outcome is never fatal: whatever the mass check, the
\* centre-of-gravity check and the solid-validity check say (an invalid
\* union included), nothing is raised, the export step is reached and able
\* to run, and a finished run has written its file and returned the path.
C11_ValidationNeverFatal ==
    entry = "generate_wedge" =>
        /\ Validated => Assembled
        /\ step_path # << >> => Validated
        /\ Assembled => raised = NoError
        /\ (Assembled /\ pc # "validate") => Validated
        /\ (Validated /\ pc # "done") => (pc = "export" /\ ENABLED ExportStep)
        /\ pc = "done" => (step_path # << >> /\ step_path \in files)

\* A run finished with its file although every check of the validation failed.
C11_Witness ==
    /\ entry = "generate_wedge"
    /\ pc = "done"
    /\ Validated
    /\ ~validation_results.weight
    /\ ~validation_results.cg
    /\ ~validation_results.geometry
    /\ step_path \in files

\* The mass validate_wedge_geometry measured, as its weight lines print it.
MeasuredWeight ==
    LET k == CHOOSE n \in 1..Len(out) : out[n].msg \in { "Weight OK", "Actual" }
    IN  out[k].n

\* C12: the mass check of validate_wedge_geometry passes exactly when
\* |measured mass - target mass| is at most the mass tolerance the document
\* configures (wedge_specs.weight.tolerance), whatever that tolerance is,
\* and independently of the centre-of-gravity tolerance.
C12_MassCheckUsesConfiguredTolerance ==
    (Validated /\ "weight.tolerance" \in cfg.present) =>
        (validation_results.weight <=>
            Abs(MeasuredWeight - Get(cfg, "weight.target_head_weight", DefaultTargetWeight))
                <= cfg.val["weight.tolerance"])

\* The lines printed with one of the given texts.
Printed(msgs) == { n \in 1..Len(out) : out[n].msg \in msgs }

\* The measurement queries of a given name in the kernel trace.
Queries(op) == { n \in 1..Len(kernel_calls) : kernel_calls[n].op = op }

\* C13: validation never short-circuits: validate_wedge_geometry always
\* measures the volume, the centroid and the validity of the solid, always
\* reports the mass check, each of the three axes of the centre-of-gravity
\* check and the solid-validity check, whatever the earlier ones said; its
\* result always has an entry for weight, cg and geometry; and it reports an
\* overall pass exactly when all three passed.
C13_ValidationEvaluatesEverything ==
    (entry = "generate_wedge" /\ Validated) =>
        /\ Cardinality(Queries("Volume")) = 1
        /\ Cardinality(Queries("CenterOfMass")) = 1
        /\ Cardinality(Queries("isValid")) = 1
        /\ Cardinality(Printed({ "Weight OK", "Weight variance" })) = 1
        /\ Cardinality(Printed({ "CG X (from face)", "CG X (from face) variance" })) = 1
        /\ Cardinality(Printed({ "CG Y (from heel)", "CG Y (from heel) variance" })) = 1
        /\ Cardinality(Printed({ "CG Z (from sole)", "CG Z (from sole) variance" })) = 1
        /\ Cardinality(Printed({ "Geometry is valid", "Geometry has errors" })) = 1
        /\ DOMAIN validation_results = { "weight", "cg", "geometry" }
        /\ validation_results.weight <=> Printed({ "Weight OK" }) # { }
        /\ validation_results.cg <=>
             Printed({ "CG X (from face) variance", "CG Y (from heel) variance",
                       "CG Z (from sole) variance" }) = { }
        /\ validation_results.geometry <=> Printed({ "Geometry is valid" }) # { }
        /\ Cardinality(Printed({ "ALL VALIDATIONS PASSED", "SOME VALIDATIONS FAILED" })) = 1
        /\ Printed({ "ALL VALIDATIONS PASSED" }) # { } <=>
             (validation_results.weight /\ validation_results.cg
                /\ validation_results.geometry)

\* The mass check failed and so did the first axis, and the two other axes
\* and the solid were still checked and passed.
C13_Witness ==
    /\ entry = "generate_wedge"
    /\ Validated
    /\ ~validation_results.weight
    /\ Printed({ "CG X (from face) variance" }) # { }
    /\ Printed({ "CG Y (from heel)" }) # { }
    /\ Printed({ "CG Z (from sole)" }) # { }
    /\ validation_results.geometry

\* The volume the kernel answered, in mm3.
MeasuredVolume ==
    LET k == CHOOSE n \in 1..Len(kernel_calls) : kernel_calls[n].op = "Volume"
    IN  kernel_calls[k].arg[1]

\* The material name validate_wedge_geometry hands to calculate_weight.
MaterialGiven == Replace(material_types[Get(cfg, "material.type", 7)], " ", "_")

\* The density table of the claim, in hundredths of g/cm3.
TableDensity(name) ==
    CASE name = << "8620", "_", "steel" >> -> 785
      [] name = << "1020", "_", "steel" >> -> 787
      [] name = << "304", "_", "stainless" >> -> 800
      [] name = << "431", "_", "stainless" >> -> 775
      [] name = << "carbon", "_", "steel" >> -> 785
      [] OTHER -> 785

\* C14: calculate_weight returns (volume in mm3 / 1000) times the density of
\* the named material from the fixed table of alloys (8620 steel 7.85, 1020
\* steel 7.87, 304 stainless 8.00, 431 stainless 7.75, carbon steel 7.85),
\* and for a material name that is not in the table it uses 7.85 instead of
\* failing.
C14_WeightIsVolumeTimesDensity ==
    (entry = "generate_wedge" /\ Validated) =>
        /\ MeasuredWeight * 1000 = MeasuredVolume * TableDensity(MaterialGiven)
        /\ raised = NoError

\* A weight was computed for a material name the table does not hold.
C14_Witness ==
    /\ entry = "generate_wedge"
    /\ Validated
    /\ MaterialGiven = << "titanium" >>
    /\ MeasuredVolume = 37000
    /\ MeasuredWeight = 29045

\* Workplane.cylinder(height, radius) is centred on the origin of its
\* workplane: the extent along Z of a cylinder operation, whose arg is
\* <<height, radius, workplane offset>>.
CylinderSpan(k) == << k.arg[3] - k.arg[1] \div 2, k.arg[3] + k.arg[1] \div 2 >>

\* The part of the hosel body the bore removes, along Z: the body is the
\* first operation of the solid, the bore the second.
BoredInterval(solid) ==
    << Max(CylinderSpan(solid[1])[1], CylinderSpan(solid[2])[1]),
       Min(CylinderSpan(solid[1])[2], CylinderSpan(solid[2])[2]) >>

\* The top face of the hosel body.
HoselTop(solid) == CylinderSpan(solid[1])[2]

\* C15: the bore of the generated hosel starts flush with the top face and
\* removes material down to exactly bore_depth below the top: inside the
\* hosel the bored interval is [top - bore_depth, top], whenever
\* 0 < bore_depth < height.
C15_BoreIsBoreDepthDeep ==
    ( /\ entry = "hosel"
      /\ pc = "done"
      /\ hosel_geometry # << >>
      /\ 0 < WedgeHosel(cfg).bore_depth
      /\ WedgeHosel(cfg).bore_depth < WedgeHosel(cfg).height ) =>
        BoredInterval(hosel_geometry) =
            << HoselTop(hosel_geometry) - WedgeHosel(cfg).bore_depth,
               HoselTop(hosel_geometry) >>

\* Sine and cosine of a signed angle, in ten-thousandths.
Sin(a) == IF a < 0 THEN -sin_loft(-a) ELSE sin_loft(a)

Cos(a) == cos_loft(Abs(a))

\* Workplane.rotate about an axis along X: where the rotate operation k,
\* whose arg is <<pivot, axis, angle>>, takes the point <<y, z>>.
RotateX(p, k) ==
    LET y == p[1] - k.arg[2]
        z == p[2] - k.arg[3]
        a == k.arg[7]
    IN  << k.arg[2] + (y * Cos(a) - z * Sin(a)) \div 10000,
           k.arg[3] + (y * Sin(a) + z * Cos(a)) \div 10000 >>

\* The front edge of the topline in the profile of a blade: the second
\* point of its polyline.
ToplineFrontEdge(blade) == << blade[1].arg[3], blade[1].arg[4] >>

\* The heel edge of a blade: where its centring translation puts the start
\* of the extrusion.
HeelEdge(blade) == blade[3].arg[1]

\* The translation that positions the hosel in the assembled wedge.
HoselTranslation == wedge[3][4].arg

\* C16: the assembly translates the hosel to (heel edge + 8 mm, face_height
\* * sin(loft), face_height * cos(loft)); this (back, up) offset is where the
\* loft rotation of the blade, by -loft about the heel-toe axis through the
\* leading edge, takes the front edge of the topline; for loft 56 and face
\* height 49 it is about (40.6, 27.4).
C16_HoselAtRotatedTopline ==
    (entry = "generate_wedge" /\ Assembled) =>
        /\ wedge[3][4].op = "translate"
        /\ wedge[1][4].op = "rotate"
        /\ wedge[1][4].arg = << 0, 0, 0, 1, 0, 0, -Get(cfg, "loft", DefaultLoft) >>
        /\ HoselTranslation[1] = HeelEdge(wedge[1]) + 800
        /\ << HoselTranslation[2], HoselTranslation[3] >> =
             RotateX(ToplineFrontEdge(wedge[1]), wedge[1][4])
        /\ HoselTranslation[2] =
             (Get(cfg, "face_height", DefaultFaceHeight)
                * sin_loft(Get(cfg, "loft", DefaultLoft))) \div 10000
        /\ HoselTranslation[3] =
             (Get(cfg, "face_height", DefaultFaceHeight)
                * cos_loft(Get(cfg, "loft", DefaultLoft))) \div 10000
        /\ (cfg.val["loft"] = 5600 /\ Get(cfg, "face_height", DefaultFaceHeight) = 4900) =>
             (HoselTranslation[2] \div 10 = 406 /\ HoselTranslation[3] \div 10 = 274)

\* A wedge of loft 56 and face height 49 was assembled.
C16_Witness ==
    /\ entry = "generate_wedge"
    /\ Assembled
    /\ cfg.val["loft"] = 5600
    /\ Get(cfg, "face_height", DefaultFaceHeight) = 4900
    /\ HoselTranslation = << -2900, 4062, 2740 >>

\* The lie rotation of the hosel in the assembled wedge.
LieRotation == wedge[3][5]

\* The centre of the bottom face of the hosel after its translation, the
\* hosel body being the first operation of the solid.
HoselBase ==
    << HoselTranslation[1], HoselTranslation[2],
       HoselTranslation[3] + CylinderSpan(wedge[3][1])[1] >>

\* C17: the lie rotation of the hosel, by -(90 - lie) about the heel-toe
\* axis, pivots at the hosel's own base: the pivot of the rotation is the
\* centre of the hosel's bottom face after translation, so the base of the
\* hosel stays at the topline point while the hosel tilts.
C17_LiePivotIsHoselBase ==
    (entry = "generate_wedge" /\ Assembled) =>
        /\ LieRotation.op = "rotate"
        /\ << LieRotation.arg[4], LieRotation.arg[5], LieRotation.arg[6] >> = << 1, 0, 0 >>
        /\ LieRotation.arg[7] = -(9000 - Get(cfg, "lie", DefaultLie))
        /\ << LieRotation.arg[1], LieRotation.arg[2], LieRotation.arg[3] >> = HoselBase

\* The USGA limit on groove spacing, 3.81 mm.
UsgaSpacingLimit == 381

\* C18: whenever the groove spacing of a generation request is above 3.81 mm
\* the caller of the groove cutter flags the wedge as non-compliant and the
\* run never reports such grooves as compliant, while the cutter itself
\* does not reject the spacing and still cuts the clamped number of grooves.
C18_WideSpacingFlagged ==
    ( /\ entry = "generate_wedge"
      /\ pc = "done"
      /\ HasGrooves(cfg)
      /\ groove_config(cfg).spacing > UsgaSpacingLimit ) =>
        /\ raised = NoError
        /\ GroovesAttempted =
             Min(groove_config(cfg).count, (Band \div groove_config(cfg).spacing) + 1)
        /\ Printed({ "Non-Conforming" }) # { }
        /\ Printed({ "Adding grooves (USGA compliant)" }) = { }

\* A second invocation on the same document is under way or over.
InvokedAgain == entry = "generate_wedge" /\ prior # << >>

\* C19: the pipeline is deterministic: a second invocation of generate_wedge
\* on identical input issues the same sequence of builder and kernel
\* operations with the same arguments as the first, at every point of its
\* run, and so ends with the same solids and the same validation results
\* (and the same lines printed), whatever the time of the invocation.
C19_SameInputSameOperations ==
    InvokedAgain =>
        /\ Len(kernel_calls) <= Len(prior[1].kernel_calls)
        /\ kernel_calls = SubSeq(prior[1].kernel_calls, 1, Len(kernel_calls))
        /\ out = SubSeq(prior[1].out, 1, Len(out))
        /\ raised = NoError
        /\ pc = "done" =>
             /\ kernel_calls = prior[1].kernel_calls
             /\ wedge = prior[1].wedge
             /\ validation_results = prior[1].validation_results
             /\ out = prior[1].out

\* A second invocation ended at a later second than the first, after a run
\* in which the kernel refused a feature and the validation failed.
C19_Witness ==
    /\ InvokedAgain
    /\ pc = "done"
    /\ now > prior[1].at
    /\ step_path # prior[1].step_path
    /\ FeatureCalls(FALSE) # { }
    /\ ~validation_results.weight
    /\ wedge = prior[1].wedge

\* C20: every generation request yields its own output file: of two
\* successful invocations of generate_wedge into the same output directory,
\* identical input included, the returned paths differ by their timestamp,
\* so neither overwrites the file of the other.
C20_EveryRequestItsOwnFile ==
    (InvokedAgain /\ pc = "done") =>
        /\ step_path # prior[1].step_path
        /\ Cardinality(files) = 2

\* The three builder objects, each as constructed from the document or not
\* constructed yet.
BuildersAsConstructed ==
    /\ builders.hosel \in { << >>, WedgeHosel(cfg) }
    /\ builders.blade \in { << >>, WedgeBlade(cfg) }
    /\ builders.sole \in { << >>, WedgeSole(cfg) }

\* C22: the parameter set is never mutated.  No step of a run of
\* generate_wedge, whether the run goes on to succeed or to abort, changes
\* the loaded configuration document, and a builder object, once constructed,
\* keeps the field values its constructor read from that document.
C22_ParametersNeverMutated ==
    [][ /\ cfg' = cfg
        /\ builders.hosel # << >> => builders'.hosel = builders.hosel
        /\ builders.blade # << >> => builders'.blade = builders.blade
        /\ builders.sole # << >> => builders'.sole = builders.sole
        /\ BuildersAsConstructed' ]_vars

\* A run that cut grooves, built the sole and exported, and one that built
\* the hosel and then aborted, both exist; this is the first.
C22_Witness ==
    /\ entry = "generate_wedge"
    /\ pc = "done"
    /\ HasGrooves(cfg)
    /\ GroovesAttempted > 0
    /\ builders = [ hosel |-> WedgeHosel(cfg), blade |-> WedgeBlade(cfg),
                    sole |-> WedgeSole(cfg) ]
    /\ step_path # << >>

\* The three builds have been run in some order and assembled.
BuiltInAnyOrder == entry = "any_order" /\ Len(wedge) = 3

\* The second round was interleaved: the sole was started first, and its
\* leading-edge fillet came only after the hosel had been built in between.
Interleaved ==
    /\ kernel_calls # << >>
    /\ kernel_calls[1].op = "box"
    /\ \E n \in 1..Len(kernel_calls) :
         /\ kernel_calls[n].op = "cylinder"
         /\ \E m \in (n + 1)..Len(kernel_calls) : kernel_calls[m].sel = "<Y"

\* C21: the hosel, blade (with grooves) and sole builders share no mutable
\* state.  When the three builds are run in any order or interleaving, each
\* yields the solid the sequential order hosel, blade, sole yielded on the
\* same document, and so the assembled solid is the same.
C21_BuildOrderDoesNotMatter ==
    BuiltInAnyOrder =>
        /\ blade_geometry = prior[1].wedge[1]
        /\ sole_geometry = prior[1].wedge[2]
        /\ hosel_geometry = SubSeq(prior[1].wedge[3], 1, Len(hosel_geometry))
        /\ wedge = prior[1].wedge

\* An interleaved round, sole started first, with a groove cut and a
\* feature that failed in both rounds.
C21_Witness ==
    /\ BuiltInAnyOrder
    /\ Interleaved
    /\ HasGrooves(cfg)
    /\ \E n \in 1..Len(kernel_calls) : ~kernel_calls[n].ok
    /\ kernel_calls # SubSeq(prior[1].kernel_calls, 1, Len(kernel_calls))

\* The WedgeSpec invariant on the parameters of document c: loft 45..64,
\* lie 60..66, bounce 0..16, bore within 0.1 of 9.4, bore depth below the
\* hosel height, outer diameter at least bore + 3.
WedgeSpecInvariant(c) ==
    /\ 4500 <= WedgeBlade(c).loft /\ WedgeBlade(c).loft <= 6400
    /\ 6000 <= WedgeBlade(c).lie /\ WedgeBlade(c).lie <= 6600
    /\ 0 <= WedgeSole(c).bounce /\ WedgeSole(c).bounce <= 1600
    /\ Abs(WedgeHosel(c).bore_diameter - 940) <= 10
    /\ WedgeHosel(c).bore_depth < WedgeHosel(c).height
    /\ WedgeHosel(c).outer_diameter >= WedgeHosel(c).bore_diameter + 300

\* C23: generate_wedge returns a path only for parameter sets satisfying the
\* WedgeSpec invariant.  Whenever a STEP file has been exported the loft,
\* lie, bounce, bore diameter, bore depth and outer diameter are within
\* their limits; for every other parameter set the call gets no further than
\* blade.validate(), where it stops only on a raised ValueError, and no file
\* is written.
C23_ExportOnlyForValidParameters ==
    /\ (step_path # << >> \/ files # { }) => WedgeSpecInvariant(cfg)
    /\ ~WedgeSpecInvariant(cfg) =>
          /\ pc \in { "load_config", "hosel_validate", "hosel_generate",
                      "blade_validate", "raised" }
          /\ pc = "raised" => raised.exc = "ValueError"
          /\ step_path = << >>
          /\ files = { }
          /\ wedge = << >>

\* A file exported for a parameter set on the limits: loft 45, lie 60,
\* bounce 0.
C23_Witness ==
    /\ pc = "done"
    /\ step_path \in files
    /\ WedgeBlade(cfg).loft = 4500
    /\ WedgeBlade(cfg).lie = 6000
    /\ WedgeSole(cfg).bounce = 0
    /\ WedgeSpecInvariant(cfg)

\* The steps of the sole grind engine on document c, in the order the
\* procedure gives them: (1) a 3 mm slab blade_length by width, lowered by
\* half its thickness so that its top face is at z = 0; (2) a rotation by
\* +bounce about the heel-toe axis (1, 0, 0) through the leading edge
\* (y = -width/2, z = 0); (3) the leading-edge fillet; (4) the heel chamfer,
\* then the toe chamfer, each with distance relief angle * 0.5.
GrindSteps(c) ==
    LET width == WedgeSole(c).width_center
    IN  << << "box", "XY", << Get(c, "blade_length", 7400), width, 300 >> >>,
           << "translate", "", << 0, 0, 0 - (300 \div 2) >> >>,
           << "rotate", "",
              << 0, -(width \div 2), 0, 1, 0, 0, WedgeSole(c).bounce >> >>,
           << "fillet", "<Y", << WedgeSole(c).leading_edge_radius >> >>,
           << "chamfer", "<X |Z", << (WedgeSole(c).heel_relief_angle * 5) \div 10 >> >>,
           << "chamfer", ">X |Z", << (WedgeSole(c).toe_relief_angle * 5) \div 10 >> >> >>

Unions == { n \in 1..Len(kernel_calls) : kernel_calls[n].op = "union" }

\* The operations by which a builder makes or changes a solid.
ShapingOps ==
    { "cylinder", "polyline", "extrude", "box", "cut", "fillet", "chamfer",
      "translate", "rotate" }

\* C25: assembly starts only after all three solids have been built.  When
\* generate_wedge stands at its assembly step the hosel, the blade and the
\* sole exist and no union has been issued; the assembly translates the
\* hosel, then rotates it, then issues the two unions, the first combining
\* blade and sole, the second adding the positioned hosel; no builder
\* operation comes after them.
C25_AssemblyAfterTheThreeBuilds ==
    /\ pc = "assemble" =>
          /\ hosel_geometry # << >>
          /\ blade_geometry # << >>
          /\ sole_geometry # << >>
    /\ ~Assembled => Unions = { }
    /\ Assembled =>
          /\ Cardinality(Unions) = 2
          /\ LET u == CHOOSE n \in Unions : n + 1 \in Unions
             IN  /\ u > 2 + Len(hosel_geometry) + Len(blade_geometry)
                           + Len(sole_geometry)
                 /\ kernel_calls[u - 2].op = "translate"
                 /\ kernel_calls[u - 1].op = "rotate"
                 /\ \A n \in (u + 2)..Len(kernel_calls) :
                      kernel_calls[n].op \notin ShapingOps
          /\ wedge[1] = blade_geometry
          /\ wedge[2] = sole_geometry
          /\ Len(wedge[3]) = Len(hosel_geometry) + 2
          /\ SubSeq(wedge[3], 1, Len(hosel_geometry)) = hosel_geometry
          /\ wedge[3][Len(hosel_geometry) + 1].op = "translate"
          /\ wedge[3][Len(hosel_geometry) + 2].op = "rotate"
          /\ wedge[3][Len(hosel_geometry) + 1] =
               KernelOp("translate", "", kernel_calls[
                   (CHOOSE n \in Unions : n + 1 \in Unions) - 2].arg)

\* A wedge assembled from a grooved blade, a sole and a hosel, and measured.
C25_Witness ==
    /\ entry = "generate_wedge"
    /\ Assembled
    /\ pc = "export"
    /\ GroovesAttempted > 0
    /\ Len(wedge[2]) >= 4

\* The notes the except clauses of the builders print.
FailureNotes ==
    { "Could not add groove", "Could not apply full heel/toe relief" }

\* The positions of the cosmetic feature operations the kernel failed.
FailedFeatures == { n \in 1..Len(kernel_calls) : ~kernel_calls[n].ok }

\* The note that identifies the failed operation k, if one was printed.
NotedIn(k, lines) ==
    \E m \in 1..Len(lines) :
        /\ lines[m].msg \in FailureNotes
        /\ k.op \in { "extrude", "cut" } => lines[m].msg = "Could not add groove"
        /\ k.op = "chamfer" => lines[m].msg = "Could not apply full heel/toe relief"

\* C26: every swallowed cosmetic feature failure (topline fillet,
\* leading-edge fillet, heel/toe chamfer, a single groove cut) produces a
\* log entry identifying the feature that failed: there are as many notes
\* printed as failed operations, and each failed operation has one.
C26_EveryFeatureFailureLogged ==
    /\ \A n \in FailedFeatures : NotedIn(kernel_calls[n], out)
    /\ Cardinality(FailedFeatures) =
         Cardinality({ m \in 1..Len(out) : out[m].msg \in FailureNotes })

\* Blade documents that agree with c on blade length, face height and loft
\* and carry another topline thickness or lie.
SameBladeOtherwise(c) ==
    { [ c EXCEPT !.val = [ @ EXCEPT !["topline_thickness"] = t, !["lie"] = l ] ] :
        t \in { 200, 300, 400 }, l \in { 6000, 6400, 6600 } }
    \ { c }

\* The operations WedgeBlade.generate issues for document c.
GenerateOps(c) ==
    LET ops == Append(BladeBody(WedgeBlade(c)), ToplineFillet)
    IN  [ n \in 1..Len(ops) |-> << ops[n].op, ops[n].sel, ops[n].arg >> ]

MeasuredCentroid ==
    LET n == CHOOSE m \in 1..Len(kernel_calls) : kernel_calls[m].op = "CenterOfMass"
    IN  kernel_calls[n].arg

\* The blade was extruded along X: X is the heel-toe axis.
ExtrudedAlongX ==
    /\ wedge[1][1] = KernelOp("polyline", "YZ", profile_points(WedgeBlade(cfg)))
    /\ wedge[1][2].op = "extrude"

\* C28: the centre-of-gravity check compares each target offset with the
\* centroid coordinate along the matching physical axis: from_heel with X
\* (the heel-toe axis, along which the blade is extruded), from_face with Y,
\* from_sole with Z, each within the tolerance of 2 mm.
C28_CgComparedAlongMatchingAxes ==
    (entry = "generate_wedge" /\ Validated) =>
        /\ ExtrudedAlongX
        /\ validation_results.cg =
             ( /\ Abs(MeasuredCentroid[1]
                      - Get(cfg, "weight.center_of_gravity.from_heel", 3700)) <= 200
               /\ Abs(MeasuredCentroid[2]
                      - Get(cfg, "weight.center_of_gravity.from_face", 2000)) <= 200
               /\ Abs(MeasuredCentroid[3]
                      - Get(cfg, "weight.center_of_gravity.from_sole", 1900)) <= 200 )

\* WedgeHosel.validate has returned True for the hosel of the call.
HoselAccepted ==
    /\ entry = "hosel"
    /\ builders.hosel # << >>
    /\ pc = "hosel_generate" \/ hosel_geometry # << >>

\* C30: every hosel parameter set accepted by WedgeHosel.validate has
\* height > 0, bore depth > 0 and outer diameter > 0, so that the bore depth
\* of a hosel that is built lies strictly between 0 and the height.
C30_AcceptedHoselIsPositive ==
    HoselAccepted =>
        /\ builders.hosel.height > 0
        /\ builders.hosel.bore_depth > 0
        /\ builders.hosel.outer_diameter > 0
        /\ 0 < builders.hosel.bore_depth
        /\ builders.hosel.bore_depth < builders.hosel.height

\* The validation generate_wedge applies to document c before it builds:
\* the range checks of the configuration loader and the validate() of the
\* hosel, the blade and the sole.
PassesGenerateWedgeValidation(c) ==
    /\ WedgeConfig_validate(c) = NoError
    /\ WedgeHosel_validate(WedgeHosel(c)) = NoError
    /\ WedgeBlade_validate(WedgeBlade(c)) = NoError
    /\ WedgeSole_validate(WedgeSole(c)) = NoError

\* C29: every parameter set for which the web form's handler exports a STEP
\* file also passes the validation generate_wedge applies, so that the
\* handler exports no wedge with a bore off 9.4 +/- 0.1 or with a bore depth
\* at or above the hosel height.
C29_AppExportsOnlyValidated ==
    (entry = "app_generate" /\ step_path # << >>) =>
        /\ PassesGenerateWedgeValidation(cfg)
        /\ Abs(builders.hosel.bore_diameter - 940) <= 10
        /\ builders.hosel.bore_depth < builders.hosel.height

=============================================================================
